---- MODULE Spec2Model ----
(***************************************************************************)
(* Model of src/features/billing/components/order-history-receipt.tsx:     *)
(* the OrderHistoryReceipt component, i.e. the financial summary it        *)
(* computes from its `order` prop and the figures it puts on the receipt.  *)
(*                                                                         *)
(* JavaScript values.  A value is a record [k, v]: k = "num" is a number   *)
(* held in fixed point with two decimals (v = the number times Scale),     *)
(* k = "undefined" is a missing field, k = "NaN" is the not-a-number that  *)
(* arithmetic on undefined produces.  All inputs drawn below are integers, *)
(* for which this arithmetic is exact.                                     *)
(***************************************************************************)
EXTENDS Integers, Sequences, FiniteSets, TLC

VARIABLES order, result, prevOrder, prevResult

vars == <<order, result, prevOrder, prevResult>>

\* Longest cart drawn as input.
MaxCart == 3

\* Fixed-point scale: two decimals, the precision the receipt prints.
Scale == 100

---------------------------------------------------------------------------
\* JavaScript numbers, undefined, NaN

JsInt(n) == [k |-> "num", v |-> n * Scale]

Amount(v) == [k |-> "num", v |-> v]

Undefined == [k |-> "undefined", v |-> 0]

NaN == [k |-> "NaN", v |-> 0]

IsNum(x) == x.k = "num"

\* x || 0 : undefined, NaN and 0 are falsy
OrZero(x) == IF IsNum(x) /\ x.v # 0 THEN x ELSE JsInt(0)

\* the condition of `x ? a : b`
Truthy(x) == IsNum(x) /\ x.v # 0

\* x > 0 : false for undefined and NaN
GreaterThanZero(x) == IsNum(x) /\ x.v > 0

\* a + b, a - b, a * b, a / b : undefined converts to NaN, NaN propagates
Add(a, b) == IF IsNum(a) /\ IsNum(b) THEN Amount(a.v + b.v) ELSE NaN

Sub(a, b) == IF IsNum(a) /\ IsNum(b) THEN Amount(a.v - b.v) ELSE NaN

Mul(a, b) == IF IsNum(a) /\ IsNum(b) THEN Amount((a.v * b.v) \div Scale) ELSE NaN

Div(a, b) == IF IsNum(a) /\ IsNum(b) /\ b.v # 0 THEN Amount((a.v * Scale) \div b.v) ELSE NaN

---------------------------------------------------------------------------
\* Strings are sequences of one-character strings.

Digit(d) == <<"0", "1", "2", "3", "4", "5", "6", "7", "8", "9">>[d + 1]

RECURSIVE Digits(_)
Digits(n) == IF n < 10 THEN <<Digit(n)>> ELSE Digits(n \div 10) \o <<Digit(n % 10)>>

Abs(n) == IF n < 0 THEN -n ELSE n

Sign(n) == IF n < 0 THEN <<"-">> ELSE <<>>

\* Number.prototype.toString
NumberToString(x) ==
    IF ~IsNum(x) THEN <<"N", "a", "N">>
    ELSE LET a == Abs(x.v)
             f == a % Scale
         IN  Sign(x.v) \o Digits(a \div Scale) \o
             (IF f = 0 THEN <<>>
              ELSE IF f % 10 = 0 THEN <<".", Digit(f \div 10)>>
              ELSE <<".", Digit(f \div 10), Digit(f % 10)>>)

\* Number.prototype.toFixed(2)
ToFixed2(x) ==
    IF ~IsNum(x) THEN <<"N", "a", "N">>
    ELSE LET a == Abs(x.v)
             f == a % Scale
         IN  Sign(x.v) \o Digits(a \div Scale) \o <<".", Digit(f \div 10), Digit(f % 10)>>

---------------------------------------------------------------------------
\* Inputs: cart items, carts, orders

CartItem(p, q, s, c) == [present |-> TRUE, price |-> p, quantity |-> q, sgst |-> s, cgst |-> c]

\* a null / undefined entry of the cart array
NullItem == [present |-> FALSE, price |-> Undefined, quantity |-> Undefined,
             sgst |-> Undefined, cgst |-> Undefined]

Items ==
    { NullItem,
      CartItem(JsInt(100), JsInt(2), JsInt(9), JsInt(9)),
      CartItem(JsInt(50), JsInt(1), JsInt(5), JsInt(5)),
      CartItem(JsInt(10), JsInt(3), JsInt(12), Undefined),
      CartItem(JsInt(20), JsInt(1), JsInt(18), JsInt(0)),
      CartItem(Undefined, JsInt(2), JsInt(5), JsInt(12)),
      CartItem(JsInt(40), Undefined, JsInt(-5), JsInt(18)),
      CartItem(JsInt(0), JsInt(2), JsInt(5), Undefined) }

Carts == UNION { [1..n -> Items] : n \in 0..MaxCart }

Discounts == { Undefined, JsInt(0), JsInt(10), JsInt(-10), JsInt(150) }

\* order === null / undefined
AbsentOrder == [present |-> FALSE, cartPresent |-> FALSE, cart |-> <<>>,
                discount_percentage |-> Undefined]

Orders ==
    { AbsentOrder } \cup
    { [present |-> TRUE, cartPresent |-> TRUE, cart |-> c, discount_percentage |-> d] :
        c \in Carts, d \in Discounts } \cup
    { [present |-> TRUE, cartPresent |-> FALSE, cart |-> <<>>, discount_percentage |-> d] :
        d \in Discounts }

---------------------------------------------------------------------------
\* The component

\* order.cart || []
CartOrEmpty(o) == IF o.cartPresent THEN o.cart ELSE <<>>

\* item?.field
OptQuantity(item) == IF item.present THEN item.quantity ELSE Undefined

OptPrice(item) == IF item.present THEN item.price ELSE Undefined

RECURSIVE TotalFold(_, _, _)
TotalFold(cart, i, sum) ==
    IF i > Len(cart) THEN sum
    ELSE TotalFold(cart, i + 1,
                   Add(sum, Mul(OrZero(OptQuantity(cart[i])), OrZero(OptPrice(cart[i])))))

totalAmount(o) == TotalFold(CartOrEmpty(o), 1, JsInt(0))

\* discountAmount with the guard of the discount row (> 0) in place of truthiness
discountAmountPositiveOnly(o) ==
    IF GreaterThanZero(o.discount_percentage)
    THEN Mul(totalAmount(o), Div(o.discount_percentage, JsInt(100)))
    ELSE JsInt(0)

discountAmount(o) ==
    IF Truthy(o.discount_percentage)
    THEN Mul(totalAmount(o), Div(o.discount_percentage, JsInt(100)))
    ELSE JsInt(0)

finalAmount(o) == Sub(totalAmount(o), discountAmount(o))

\* called on a present item only: `item.price` on null throws (see GstFold)
calculateItemGST(item) ==
    LET itemPrice == item.price
        itemQuantity == item.quantity
        baseAmount == Mul(itemPrice, itemQuantity)
    IN  [sgst |-> Div(Mul(baseAmount, OrZero(item.sgst)), JsInt(100)),
         cgst |-> Div(Mul(baseAmount, OrZero(item.cgst)), JsInt(100))]

Includes(seq, x) == \E j \in 1..Len(seq) : seq[j] = x

\* TrackRate without the includes() test
TrackRateNoDedup(rates, rate) ==
    IF GreaterThanZero(rate) THEN Append(rates, rate) ELSE rates

\* rates.push(rate) under the guard of lines 81 and 84
TrackRate(rates, rate) ==
    IF GreaterThanZero(rate) /\ ~Includes(rates, rate) THEN Append(rates, rate) ELSE rates

EmptySummary ==
    [threw |-> FALSE, baseAmount |-> JsInt(0), sgstAmount |-> JsInt(0),
     cgstAmount |-> JsInt(0), sgstRates |-> <<>>, cgstRates |-> <<>>]

ThrownSummary == [EmptySummary EXCEPT !.threw = TRUE]

\* the reducer of gstSummary, on a present item
GstStep(summary, item) ==
    LET gst == calculateItemGST(item)
        itemTotal == Mul(item.quantity, item.price)
        sgstRate == OrZero(item.sgst)
        cgstRate == OrZero(item.cgst)
    IN  [threw |-> FALSE,
         baseAmount |-> Add(summary.baseAmount, itemTotal),
         sgstAmount |-> Add(summary.sgstAmount, gst.sgst),
         cgstAmount |-> Add(summary.cgstAmount, gst.cgst),
         sgstRates |-> TrackRate(summary.sgstRates, sgstRate),
         cgstRates |-> TrackRate(summary.cgstRates, cgstRate)]

\* reading item.price of a null item raises a TypeError, which ends the fold
RECURSIVE GstFold(_, _, _)
GstFold(cart, i, summary) ==
    IF i > Len(cart) THEN summary
    ELSE IF ~cart[i].present THEN ThrownSummary
    ELSE GstFold(cart, i + 1, GstStep(summary, cart[i]))

\* gstSummary with the tax taken on the discounted amount
gstSummaryAfterDiscount(o) ==
    LET s == GstFold(CartOrEmpty(o), 1, EmptySummary)
        keep == Sub(JsInt(1), Div(OrZero(o.discount_percentage), JsInt(100)))
    IN  [s EXCEPT !.sgstAmount = Mul(@, keep), !.cgstAmount = Mul(@, keep)]

gstSummary(o) == GstFold(CartOrEmpty(o), 1, EmptySummary)

RECURSIVE MathMin(_, _)
MathMin(rates, i) ==
    IF i = Len(rates) THEN rates[i]
    ELSE LET m == MathMin(rates, i + 1) IN IF rates[i].v < m.v THEN rates[i] ELSE m

RECURSIVE MathMax(_, _)
MathMax(rates, i) ==
    IF i = Len(rates) THEN rates[i]
    ELSE LET m == MathMax(rates, i + 1) IN IF rates[i].v > m.v THEN rates[i] ELSE m

\* formatGSTRates with the first and last element in place of min and max
formatGSTRatesFirstLast(rates) ==
    IF Len(rates) = 0 THEN <<"0">>
    ELSE IF Len(rates) = 1 THEN NumberToString(rates[1])
    ELSE NumberToString(rates[1]) \o <<"-">> \o NumberToString(rates[Len(rates)])

formatGSTRates(rates) ==
    IF Len(rates) = 0 THEN <<"0">>
    ELSE IF Len(rates) = 1 THEN NumberToString(rates[1])
    ELSE NumberToString(MathMin(rates, 1)) \o <<"-">> \o NumberToString(MathMax(rates, 1))

\* {order.discount_percentage > 0 && ( <discount row> )}
DiscountRowShown(o) == GreaterThanZero(o.discount_percentage)

\* the taxable value row showing the tax base
TaxableValueRowBase(final, summary) == ToFixed2(summary.baseAmount)

\* <span>Taxable Value</span> row
TaxableValueRow(final, summary) ==
    ToFixed2(Sub(final, Add(summary.cgstAmount, summary.sgstAmount)))

\* the payable row with the tax added on top
PayableRowPlusTax(final, summary) ==
    ToFixed2(Add(final, Add(summary.cgstAmount, summary.sgstAmount)))

\* <span>Total Amount Payable</span> row
PayableRow(final, summary) == ToFixed2(final)

NullResult == [kind |-> "null"]

ThrownResult == [kind |-> "threw"]

\* the returned element: the computed figures and the rows of the totals section
Element(o) ==
    LET summary == gstSummary(o)
    IN  IF summary.threw THEN ThrownResult
        ELSE [kind |-> "element",
              totalAmount |-> totalAmount(o),
              discountAmount |-> discountAmount(o),
              finalAmount |-> finalAmount(o),
              baseAmount |-> summary.baseAmount,
              sgstAmount |-> summary.sgstAmount,
              cgstAmount |-> summary.cgstAmount,
              sgstRates |-> summary.sgstRates,
              cgstRates |-> summary.cgstRates,
              totalRow |-> ToFixed2(totalAmount(o)),
              discountShown |-> DiscountRowShown(o),
              discountRow |-> ToFixed2(discountAmount(o)),
              taxableRow |-> TaxableValueRow(finalAmount(o), summary),
              cgstLabel |-> formatGSTRates(summary.cgstRates),
              cgstRow |-> ToFixed2(summary.cgstAmount),
              sgstLabel |-> formatGSTRates(summary.sgstRates),
              sgstRow |-> ToFixed2(summary.sgstAmount),
              totalTaxRow |-> ToFixed2(Add(summary.cgstAmount, summary.sgstAmount)),
              payableRow |-> PayableRow(finalAmount(o), summary)]

\* OrderHistoryReceipt without the `if (!order) return null` guard:
\* reading order.cart of a null order raises a TypeError
OrderHistoryReceiptNoGuard(o) == IF ~o.present THEN ThrownResult ELSE Element(o)

OrderHistoryReceipt(o) == IF ~o.present THEN NullResult ELSE Element(o)

---------------------------------------------------------------------------
\* State machine: the component is rendered with an order, and rendered
\* again when its parent passes the same order with another discount.

NotRendered == [kind |-> "pending"]

Init ==
    /\ order \in Orders
    /\ result = NotRendered
    /\ prevOrder = AbsentOrder
    /\ prevResult = NotRendered

Render ==
    /\ result = NotRendered
    /\ result' = OrderHistoryReceipt(order)
    /\ UNCHANGED <<order, prevOrder, prevResult>>

ReRender ==
    /\ result # NotRendered
    /\ order.present
    /\ \E d \in Discounts \ {order.discount_percentage} :
          /\ order' = [order EXCEPT !.discount_percentage = d]
          /\ result' = OrderHistoryReceipt(order')
    /\ prevOrder' = order
    /\ prevResult' = result

Next == Render \/ ReRender

Spec == Init /\ [][Next]_vars

---------------------------------------------------------------------------
\* Properties

Rendered == result.kind = "element"

\* the integer a number stands for (inputs are integers), a missing one as 0
Units(x) == IF IsNum(x) THEN x.v \div Scale ELSE 0

RECURSIVE SumSeq(_)
SumSeq(s) == IF s = <<>> THEN 0 ELSE Head(s) + SumSeq(Tail(s))

SumOver(cart, F(_)) == SumSeq([i \in 1..Len(cart) |-> F(cart[i])])

ItemBase(item) == Units(item.quantity) * Units(item.price)

ItemTaxA(item) == Units(item.quantity) * Units(item.price) * Units(item.sgst)

ItemTaxB(item) == Units(item.quantity) * Units(item.price) * Units(item.cgst)

TheCart == CartOrEmpty(order)

ScenarioItem == CartItem(JsInt(100), JsInt(2), JsInt(9), JsInt(9))

\* C1: for every present order the computation raises no exception and
\* totalAmount, discountAmount, finalAmount, baseAmount and both component
\* amounts are defined numbers (absent fields as 0, absent cart as empty).
C1_Total ==
    (result # NotRendered /\ order.present) =>
        /\ Rendered
        /\ IsNum(result.totalAmount) /\ IsNum(result.discountAmount)
        /\ IsNum(result.finalAmount) /\ IsNum(result.baseAmount)
        /\ IsNum(result.sgstAmount) /\ IsNum(result.cgstAmount)

\* C2: baseAmount is the sum of quantity x price, the sgst amount the sum of
\* quantity x price x sgst / 100 and the cgst amount the sum of
\* quantity x price x cgst / 100, over all items of the cart.
C2_SummarySums ==
    Rendered =>
        /\ result.baseAmount = Amount(Scale * SumOver(TheCart, ItemBase))
        /\ result.sgstAmount = Amount(SumOver(TheCart, ItemTaxA))
        /\ result.cgstAmount = Amount(SumOver(TheCart, ItemTaxB))

\* C3: two renders of the same cart under different discount percentages
\* give the same component amounts, the same total tax and the same rate
\* sets.
C3_DiscountKeepsTax ==
    (/\ Rendered
     /\ prevResult.kind = "element"
     /\ prevOrder.cartPresent = order.cartPresent
     /\ prevOrder.cart = order.cart
     /\ prevOrder.discount_percentage # order.discount_percentage) =>
        /\ prevResult.sgstAmount = result.sgstAmount
        /\ prevResult.cgstAmount = result.cgstAmount
        /\ prevResult.sgstRow = result.sgstRow
        /\ prevResult.cgstRow = result.cgstRow
        /\ prevResult.totalTaxRow = result.totalTaxRow
        /\ prevResult.sgstRates = result.sgstRates
        /\ prevResult.cgstRates = result.cgstRates
        /\ prevResult.sgstLabel = result.sgstLabel
        /\ prevResult.cgstLabel = result.cgstLabel

\* the scenario of C3: 18/18 of tax at discount 0 and at discount 10, while
\* the discount, the final amount and the taxable value differ
C3_Witness ==
    /\ Rendered /\ prevResult.kind = "element"
    /\ order.cart = <<ScenarioItem>> /\ prevOrder.cart = <<ScenarioItem>>
    /\ prevOrder.discount_percentage = JsInt(0)
    /\ order.discount_percentage = JsInt(10)
    /\ prevResult.sgstAmount = JsInt(18) /\ result.sgstAmount = JsInt(18)
    /\ prevResult.cgstAmount = JsInt(18) /\ result.cgstAmount = JsInt(18)
    /\ prevResult.discountAmount = JsInt(0) /\ result.discountAmount = JsInt(20)
    /\ prevResult.finalAmount = JsInt(200) /\ result.finalAmount = JsInt(180)
    /\ prevResult.taxableRow = <<"1", "6", "4", ".", "0", "0">>
    /\ result.taxableRow = <<"1", "4", "4", ".", "0", "0">>

\* C4: discountAmount is totalAmount x discountPercentage / 100 whenever the
\* percentage is present and non-zero (negative and above 100 included), and
\* exactly 0 when it is 0 or absent.
C4_DiscountAmount ==
    Rendered =>
        /\ IsNum(result.discountAmount)
        /\ result.discountAmount.v =
              IF IsNum(order.discount_percentage) /\ order.discount_percentage.v # 0
              THEN (result.totalAmount.v * Units(order.discount_percentage)) \div 100
              ELSE 0

\* a negative percentage gives a negative discount
C4_Witness ==
    /\ Rendered
    /\ order.discount_percentage = JsInt(-10)
    /\ result.totalAmount = JsInt(200)
    /\ result.discountAmount = JsInt(-20)

\* C5: finalAmount is totalAmount minus discountAmount, and the payable row
\* shows exactly finalAmount.
C5_FinalAmount ==
    Rendered =>
        /\ IsNum(result.finalAmount)
        /\ result.finalAmount.v = result.totalAmount.v - result.discountAmount.v
        /\ result.payableRow = ToFixed2(result.finalAmount)

C5_Witness ==
    /\ Rendered
    /\ order.cart = <<ScenarioItem>>
    /\ order.discount_percentage = JsInt(10)
    /\ result.sgstAmount = JsInt(18)
    /\ result.payableRow = <<"1", "8", "0", ".", "0", "0">>

FirstIndex(given, x) == CHOOSE k \in 1..Len(given) :
    given[k] = x /\ \A j \in 1..(k - 1) : given[j] # x

\* rates holds exactly the distinct strictly positive values of given, in
\* order of first occurrence
DistinctPositiveInOrder(rates, given) ==
    /\ \A i \in 1..Len(rates) : IsNum(rates[i]) /\ rates[i].v > 0
    /\ \A i, j \in 1..Len(rates) : i # j => rates[i] # rates[j]
    /\ \A k \in 1..Len(given) :
          (IsNum(given[k]) /\ given[k].v > 0) => \E i \in 1..Len(rates) : rates[i] = given[k]
    /\ \A i \in 1..Len(rates) : \E k \in 1..Len(given) : given[k] = rates[i]
    /\ \A i, j \in 1..Len(rates) :
          i < j => FirstIndex(given, rates[i]) < FirstIndex(given, rates[j])

\* C6: each rate set holds exactly the distinct strictly positive rates of
\* its component that occur on an item, once each, in order of first
\* occurrence in the cart.
C6_RateSets ==
    Rendered =>
        /\ DistinctPositiveInOrder(result.sgstRates,
                                   [i \in 1..Len(TheCart) |-> TheCart[i].sgst])
        /\ DistinctPositiveInOrder(result.cgstRates,
                                   [i \in 1..Len(TheCart) |-> TheCart[i].cgst])

\* sgst rates 5, 5, 12 give [5, 12]
C6_Witness ==
    /\ Rendered
    /\ Len(order.cart) = 3
    /\ order.cart[1].sgst = JsInt(5)
    /\ order.cart[2].sgst = JsInt(5)
    /\ order.cart[3].sgst = JsInt(12)
    /\ result.sgstRates = <<JsInt(5), JsInt(12)>>

SetMin(S) == CHOOSE m \in S : \A x \in S : m <= x

SetMax(S) == CHOOSE m \in S : \A x \in S : m >= x

RangeLabel(rates) ==
    LET S == { Units(rates[i]) : i \in 1..Len(rates) }
    IN  IF S = {} THEN <<"0">>
        ELSE IF Cardinality(S) = 1 THEN Digits(SetMin(S))
        ELSE Digits(SetMin(S)) \o <<"-">> \o Digits(SetMax(S))

\* C7: formatGSTRates gives "0" for no rate, the rate for one rate and
\* "min-max" of the numeric minimum and maximum for two or more, whatever
\* the order of the rates.
C7_FormatRates ==
    Rendered =>
        /\ result.sgstLabel = RangeLabel(result.sgstRates)
        /\ result.cgstLabel = RangeLabel(result.cgstRates)

\* rates met in the order 12, 5, 18 are shown as 5-18
C7_Witness ==
    /\ Rendered
    /\ result.sgstRates = <<JsInt(12), JsInt(5), JsInt(18)>>
    /\ result.sgstLabel = <<"5", "-", "1", "8">>
    /\ result.cgstRates = <<>>
    /\ result.cgstLabel = <<"0">>

\* C8: an absent order gives null, and no exception.
C8_AbsentOrder ==
    (result # NotRendered /\ ~order.present) => result = NullResult

C8_Witness == ~order.present /\ result = NullResult

\* C9 as claimed: the taxable value shown is the summary's baseAmount.
C9_TaxableIsBase ==
    Rendered => result.taxableRow = ToFixed2(result.baseAmount)

\* C9 amended: the taxable value shown is finalAmount minus both component
\* amounts; when baseAmount is a number this is baseAmount minus the discount
\* minus the tax.
C9_TaxableValue ==
    Rendered =>
        /\ result.taxableRow =
              ToFixed2(Sub(result.finalAmount, Add(result.cgstAmount, result.sgstAmount)))
        /\ IsNum(result.baseAmount) =>
              /\ IsNum(result.sgstAmount) /\ IsNum(result.cgstAmount)
              /\ result.taxableRow =
                    ToFixed2(Amount(result.baseAmount.v - result.discountAmount.v
                                    - result.sgstAmount.v - result.cgstAmount.v))

\* base 200, discount 20, tax 36: the row shows 144.00
C9_Witness ==
    /\ Rendered
    /\ order.cart = <<ScenarioItem>>
    /\ order.discount_percentage = JsInt(10)
    /\ result.baseAmount = JsInt(200)
    /\ result.taxableRow = <<"1", "4", "4", ".", "0", "0">>

\* C10: the discount row is shown exactly when the percentage is present and
\* non-zero, i.e. exactly when a discount enters finalAmount.
C10_DiscountRow ==
    Rendered =>
        (result.discountShown <=>
            (IsNum(order.discount_percentage) /\ order.discount_percentage.v # 0))

====
